---------------------------- MODULE Spec2Model ----------------------------
(***************************************************************************)
(* bear-lake: a Parquet data lake with JSON sidecar metadata.              *)
(*                                                                         *)
(* The model follows src/src/bear_lake/database.py (Database),             *)
(* metadata.py (MetadataManager) and table.py (operations, TableQuery).    *)
(* The file system under the database root is the state: per table a       *)
(* directory, an optional metadata.json and a set of parquet files.        *)
(*                                                                         *)
(* External collaborators are modelled by what the code relies on:         *)
(*  - polars.scan_parquet on a glob that matches no file raises (the code  *)
(*    catches it, database.py:187-197);                                    *)
(*  - pyarrow's write_to_dataset writes one file per distinct partition    *)
(*    tuple, named by a fresh guid, under <key>=<value> directories, and   *)
(*    leaves the partition columns out of the file; a hive scan gives      *)
(*    them back from the path;                                             *)
(*  - a scan over files that do not share one layout (hive and non-hive    *)
(*    paths, or different column sets) is library dependent: it either     *)
(*    raises or yields every file's rows; which one is fixed for a run     *)
(*    (variable lib).                                                      *)
(* Column order inside a row is not modelled: a row is a function from     *)
(* column names to values, a frame's rows are a bag.                       *)
(***************************************************************************)
EXTENDS Integers, Sequences, FiniteSets, Bags, TLC

VARIABLES
    meta,      \* table name -> metadata.json record; DOMAIN = registered tables
    dirs,      \* the table directories that exist under the database root
    files,     \* table name -> set of parquet files [dir, name, rows]
    guid,      \* source of pyarrow's fresh file names
    lib,       \* how the installed polars scans files of mixed layouts
    clock,     \* datetime.now(), one tick per call
    result,    \* what the last call did: operation, arguments, outcome
    pre,       \* the file system as it was when the last call started
    inserted,  \* per table: create seen, and the rows inserted since
    pc,        \* where the call in progress stands, when calls run in steps
    torn,      \* tables whose metadata.json is open for writing: truncated,
               \* the new record not yet written out
    objects,   \* the TableQuery objects made so far, by reference
    threads    \* caller -> where its insert stands, when callers run at once

vars == <<meta, dirs, files, guid, lib, clock, result, pre, inserted, pc, torn,
          objects, threads>>

\* Number of API calls explored from the empty database.
MaxOps == 4

Tables == {"stock_prices"}

\* Number of calls explored when calls run in steps and the process may die.
MaxCrashOps == 3

\* Number of API calls explored on a database of two tables.
MaxLakeOps == 5

LakeTables == {"stock_prices", "companies"}

---------------------------------------------------------------------------
(* Type tags and polars data types                                         *)

\* str(dtype) and the stored type tags, spelled out so that Python's
\* substring test (metadata.py:127) can be computed.
Chars(s) ==
    CASE s = "String"   -> <<"S","t","r","i","n","g">>
      [] s = "Int64"    -> <<"I","n","t","6","4">>
      [] s = "Int32"    -> <<"I","n","t","3","2">>
      [] s = "UInt32"   -> <<"U","I","n","t","3","2">>
      [] s = "Float64"  -> <<"F","l","o","a","t","6","4">>
      [] s = "Float32"  -> <<"F","l","o","a","t","3","2">>
      [] s = "Date"     -> <<"D","a","t","e">>
      [] s = "Datetime" -> <<"D","a","t","e","t","i","m","e">>
      [] s = "Boolean"  -> <<"B","o","o","l","e","a","n">>
      [] s = "List(Int64)" -> <<"L","i","s","t","(","I","n","t","6","4",")">>
      [] s = "date"      -> <<"d","a","t","e">>
      [] s = "ticker"    -> <<"t","i","c","k","e","r">>
      [] s = "sector"    -> <<"s","e","c","t","o","r">>
      [] s = "_year"     -> <<"_","y","e","a","r">>
      [] s = "year"      -> <<"y","e","a","r">>
      [] s = "date_year" -> <<"d","a","t","e","_","y","e","a","r">>
      [] s = "_right"    -> <<"_","r","i","g","h","t">>
      [] s = "date_right" -> <<"d","a","t","e","_","r","i","g","h","t">>
      [] s = "ticker_right" -> <<"t","i","c","k","e","r","_","r","i","g","h","t">>
      [] s = "sector_right" -> <<"s","e","c","t","o","r","_","r","i","g","h","t">>
      [] s = "ticker_year" -> <<"t","i","c","k","e","r","_","y","e","a","r">>
      [] s = "" -> <<>>
      [] s = "Datetime(time_unit='us', time_zone=None)" ->
            <<"D","a","t","e","t","i","m","e","(","t","i","m","e","_","u","n","i","t",
              "=","'","u","s","'",","," ","t","i","m","e","_","z","o","n","e","=",
              "N","o","n","e",")">>

\* The column and key names of the model, to read a spelling back.
Names ==
    {"date", "ticker", "sector", "year", "date_year", "ticker_year",
     "date_right", "ticker_right", "sector_right", ""}

FromChars(cs) == CHOOSE s \in Names : Chars(s) = cs

\* Python's a + b on names
Concat(a, b) == FromChars(Chars(a) \o Chars(b))

\* Python's `a in b` on strings.
IsSubstring(a, b) ==
    \E i \in 0..(Len(b) - Len(a)) : SubSeq(b, i + 1, i + Len(a)) = a

\* Python's s.replace(old, ""), on spellings
RECURSIVE Remove(_, _)
Remove(cs, old) ==
    IF Len(cs) < Len(old) \/ old = <<>> THEN cs
    ELSE IF SubSeq(cs, 1, Len(old)) = old
         THEN Remove(SubSeq(cs, Len(old) + 1, Len(cs)), old)
         ELSE <<cs[1]>> \o Remove(Tail(cs), old)

\* polars data types: the classes a schema is declared with, and the
\* instance a DataFrame column of datetimes carries.
DatetimeUs == "Datetime(time_unit='us', time_zone=None)"

\* A data type is denoted by its str(): "Int64", ..., and DatetimeUs for the
\* instance; the class pl.Datetime prints as "Datetime".

\* polars' dtype equality: a class equals its parameterised instances.
DTypeEq(a, b) ==
    \/ a = b
    \/ {a, b} = {"Datetime", DatetimeUs}

TypeMap == {"String", "Int64", "Int32", "Float64", "Float32", "Date", "Datetime", "Boolean"}

_polars_type_to_string(dtype) ==
    IF \E k \in TypeMap : DTypeEq(dtype, k)
    THEN CHOOSE k \in TypeMap : DTypeEq(dtype, k)
    ELSE dtype

_string_to_polars_type(type_str) ==
    IF type_str \in TypeMap THEN type_str ELSE "String"

\* The older Database of bear_lake/__init__.py reads the same metadata.json.
\* Its dtype_map, __init__.py:95-115.
DtypeMap ==
    {"Int8", "Int16", "Int32", "Int64", "UInt8", "UInt16", "UInt32", "UInt64",
     "Float32", "Float64", "Boolean", "Utf8", "String", "Binary", "Date",
     "Datetime", "Time", "Duration", "Categorical"}

\* Python's eval(dtype_str, {"pl": pl}): the text is run as an expression.
\* A text that starts with "pl." names something in the polars module; any
\* other name of the model's tags is unbound and the evaluation stops with
\* a NameError.
eval(dtype_str) ==
    IF Len(Chars(dtype_str)) >= 3 /\ SubSeq(Chars(dtype_str), 1, 3) = <<"p","l",".">>
    THEN [status |-> "ok", dtype |-> dtype_str, evaluated |-> TRUE]
    ELSE [status |-> "NameError", dtype |-> "", evaluated |-> TRUE]

\* Database._deserialize_dtype of bear_lake/__init__.py
_deserialize_dtype(dtype_str) ==
    IF dtype_str \in DtypeMap
    THEN [status |-> "ok", dtype |-> dtype_str, evaluated |-> FALSE]
    ELSE eval(dtype_str)

---------------------------------------------------------------------------
(* Rows, bags of rows, conditions                                          *)

RECURSIVE SumOver(_, _)
SumOver(b, S) ==
    IF S = {} THEN 0
    ELSE LET x == CHOOSE y \in S : TRUE IN b[x] + SumOver(b, S \ {x})

\* The bag of f(r) for the rows r of bag b.
MapBag(f(_), b) ==
    [y \in {f(x) : x \in DOMAIN b} |-> SumOver(b, {x \in DOMAIN b : f(x) = y})]

\* The rows of bag b that satisfy p, with their multiplicities.
FilterBag(p(_), b) == [r \in {x \in DOMAIN b : p(x)} |-> b[r]]

Restrict(row, cols) == [c \in cols |-> row[c]]

\* df.select(columns) on a bag of rows
Project(b, cols) == LET f(r) == Restrict(r, cols) IN MapBag(f, b)

\* df.unique(): full-row duplicates removed
Unique(b) == SetToBag(BagToSet(b))

\* pl.col(base).dt.year() on the model's dates (yyyymmdd)
Year(d) == d \div 10000

\* A polars expression used as a condition: pl.lit(True), or
\* pl.col(col) == val.
CondColumns(c) == IF c.kind = "eq" THEN {c.col} ELSE {}

Eval(c, row) == IF c.kind = "eq" THEN row[c.col] = c.val ELSE TRUE

---------------------------------------------------------------------------
(* The file system under the database root                                 *)

FS == [meta |-> meta, dirs |-> dirs, files |-> files, guid |-> guid]

\* rmtree guarded the wrong way round: an existing directory is left alone.
rmtree_skipped(fs, t) == fs

\* Database._get_table_path and MetadataManager._get_metadata_path: the
\* metadata file lives inside the table directory, so removing the
\* directory tree removes the metadata record with the data files.
rmtree(fs, t) ==
    [fs EXCEPT !.meta  = [x \in DOMAIN fs.meta \ {t} |-> fs.meta[x]],
               !.dirs  = @ \ {t},
               !.files = [@ EXCEPT ![t] = {}]]

mkdir(fs, t) == [fs EXCEPT !.dirs = @ \cup {t}]

\* write_parquet into a table directory emptied first.
write_parquet_alone(fs, t, dir, name, df) ==
    [fs EXCEPT !.files =
        [@ EXCEPT ![t] = {[dir |-> dir, name |-> name,
                           columns |-> df.columns, rows |-> df.rows]}]]

\* df.write_parquet(path): creates the file or replaces the one there.
write_parquet(fs, t, dir, name, df) ==
    [fs EXCEPT !.files =
        [@ EXCEPT ![t] = {f \in @ : ~(f.dir = dir /\ f.name = name)}
                          \cup {[dir |-> dir, name |-> name,
                                 columns |-> df.columns, rows |-> df.rows]}]]

\* The files matched by <table>/*.parquet
RootFiles(fs, t) == {f \in fs.files[t] : f.dir = <<>>}

---------------------------------------------------------------------------
(* MetadataManager                                                         *)

table_exists(fs, t) == t \in DOMAIN fs.meta

get_table_metadata(fs, t) == fs.meta[t]

create_table_metadata(fs, t, schema, partition_keys, now) ==
    LET record == [table_name     |-> t,
                   schema         |-> [i \in 1..Len(schema) |->
                                         <<schema[i][1], _polars_type_to_string(schema[i][2])>>],
                   partition_keys |-> partition_keys,
                   created_at     |-> now,
                   last_modified  |-> now]
        made == mkdir(fs, t)
    IN  [made EXCEPT !.meta = (t :> record) @@ made.meta]

update_last_modified(fs, t, now) ==
    IF table_exists(fs, t)
    THEN [fs EXCEPT !.meta[t].last_modified = now]
    ELSE fs

delete_table_metadata(fs, t) ==
    [fs EXCEPT !.meta = [x \in DOMAIN fs.meta \ {t} |-> fs.meta[x]]]

\* list_tables: the directories under the root that hold a metadata.json
list_tables(fs) == {t \in fs.dirs : t \in DOMAIN fs.meta}

\* get_schema: column -> decoded data type, as a Python dict.
get_schema(fs, t) ==
    LET s == fs.meta[t].schema
    IN  [c \in {s[i][1] : i \in 1..Len(s)} |->
            _string_to_polars_type(s[CHOOSE i \in 1..Len(s) : s[i][1] = c][2])]

\* A DataFrame: dtypes, a sequence of <<column, data type>>, and rows.
FrameColumns(data) == {data.dtypes[i][1] : i \in 1..Len(data.dtypes)}

FrameDType(data, col) ==
    data.dtypes[CHOOSE i \in 1..Len(data.dtypes) : data.dtypes[i][1] = col][2]

\* The check of one schema column, metadata.py:120-131: "" when it passes.
ColumnProblem(data, col, expected_type_str) ==
    IF col \notin FrameColumns(data) THEN "MissingColumn"
    ELSE LET expected_type   == _string_to_polars_type(expected_type_str)
             actual_type_str == FrameDType(data, col)
         IN  IF /\ ~IsSubstring(Chars(expected_type_str), Chars(actual_type_str))
                /\ expected_type # actual_type_str
             THEN "TypeMismatch"
             ELSE ""

\* validate_schema: the schema columns are checked in their stored order and
\* the first failing one raises. The outcome is [status, col].
validate_schema(fs, t, data) ==
    LET table_schema == get_table_metadata(fs, t).schema
        bad == {i \in 1..Len(table_schema) :
                   ColumnProblem(data, table_schema[i][1], table_schema[i][2]) # ""}
    IN  IF bad = {} THEN [status |-> "ok", col |-> ""]
        ELSE LET i == CHOOSE j \in bad : \A k \in bad : j <= k
             IN  [status |-> ColumnProblem(data, table_schema[i][1], table_schema[i][2]),
                  col    |-> table_schema[i][1]]

---------------------------------------------------------------------------
(* Scans and queries                                                       *)

RECURSIVE AllRows(_, _)
\* The rows of a set of files, each read by read(_).
AllRows(read(_), fl) ==
    IF fl = {} THEN EmptyBag
    ELSE LET f == CHOOSE x \in fl : TRUE IN read(f) (+) AllRows(read, fl \ {f})

\* The keys of the <key>=<value> directories a file lies in.
DirKeys(f) == {f.dir[i][1] : i \in 1..Len(f.dir)}

\* A row of file f with the partition columns its path carries.
HiveRow(f, r) ==
    [c \in DOMAIN r \cup DirKeys(f) |->
        IF c \in DOMAIN r THEN r[c]
        ELSE f.dir[CHOOSE i \in 1..Len(f.dir) : f.dir[i][1] = c][2]]

FileRows(f, hive) ==
    IF hive THEN LET h(r) == HiveRow(f, r) IN MapBag(h, f.rows) ELSE f.rows

Layout(f, hive) ==
    [parts |-> IF hive THEN DirKeys(f) ELSE {}, cols |-> f.columns]

\* pl.scan_parquet(pattern, hive_partitioning=hive) over the files fl the
\* pattern matches. No file: raises at once. Files of one layout: their
\* rows. Otherwise how decides: "union", "raise_scan" (raises inside
\* scan_parquet) or "raise_collect" (raises when the frame is collected).
scan_parquet(fl, hive, how) ==
    IF fl = {} THEN [status |-> "raise_scan", rows |-> EmptyBag, columns |-> {}]
    ELSE IF Cardinality({Layout(f, hive) : f \in fl}) > 1 /\ how # "union"
    THEN [status |-> how, rows |-> EmptyBag, columns |-> {}]
    ELSE LET read(f) == FileRows(f, hive)
             rows == AllRows(read, fl)
         IN  [status |-> "ok", rows |-> rows,
              columns |-> UNION {f.columns \cup (IF hive THEN DirKeys(f) ELSE {}) : f \in fl}]

\* A frame that could not be computed.
Failed(status) == [status |-> status, rows |-> EmptyBag, columns |-> {}, order |-> <<>>]

RECURSIVE BagToSeq(_)
\* The rows of a bag one after the other: the order a scan yields them in.
BagToSeq(b) ==
    IF DOMAIN b = {} THEN <<>>
    ELSE LET r == CHOOSE x \in DOMAIN b : TRUE
         IN  <<r>> \o BagToSeq(b (-) SetToBag({r}))

\* database.py:199-200: every filter in turn, on the base table's frame.
apply_filters(df, table_query) ==
    LET fs_ == table_query._filters
        needed == UNION {CondColumns(fs_[i]) : i \in 1..Len(fs_)}
        \* a row without the column holds a null there: the test is not true
        keep(r) == \A i \in 1..Len(fs_) :
                      CondColumns(fs_[i]) \subseteq DOMAIN r /\ Eval(fs_[i], r)
    IN  IF df.status # "ok" THEN df
        ELSE IF ~(needed \subseteq df.columns) THEN Failed("ColumnNotFound")
        ELSE [df EXCEPT !.rows = FilterBag(keep, df.rows),
                        !.order = SelectSeq(df.order, keep)]

\* The name a column of the right frame gets in a join: polars adds
\* "_right" when the left frame has a column of that name.
JoinedName(c, left_columns) ==
    IF c \in left_columns THEN Concat(c, "_right") ELSE c

\* df.join(other_df, on=on, how="inner"): the pairs of rows equal on the
\* join column, the left row extended by the other columns of the right.
inner_join(df, other_df, on) ==
    LET extra == other_df.columns \ {on}
        \* a column the right row holds no value in stays null in the pair
        merged(l, r) ==
            [c \in DOMAIN l \cup {JoinedName(x, df.columns) : x \in extra \cap DOMAIN r} |->
                IF c \in DOMAIN l THEN l[c]
                ELSE r[CHOOSE x \in extra \cap DOMAIN r : JoinedName(x, df.columns) = c]]
        pairs == {<<l, r>> : l \in DOMAIN df.rows, r \in DOMAIN other_df.rows}
        hits == {p \in pairs : /\ on \in DOMAIN p[1] \cap DOMAIN p[2]
                               /\ p[1][on] = p[2][on]}
        rows == [m \in {merged(p[1], p[2]) : p \in hits} |->
                    SumOver([p \in hits |-> df.rows[p[1]] * other_df.rows[p[2]]],
                            {p \in hits : merged(p[1], p[2]) = m})]
    IN  IF df.status # "ok" THEN df
        ELSE IF other_df.status # "ok" THEN Failed("ComputeError")
        ELSE IF on \notin df.columns \/ on \notin other_df.columns
        THEN Failed("ColumnNotFound")
        ELSE [status |-> "ok", rows |-> rows,
              columns |-> df.columns \cup {JoinedName(x, df.columns) : x \in extra},
              order |-> BagToSeq(rows)]

RECURSIVE apply_joins(_, _, _, _, _)
\* database.py:202-210: the joins from the i-th on, in the order they were
\* added. The other table is scanned without hive partitioning and without
\* a look at the metadata; with no file to scan both scans raise.
apply_joins(fs, df, joins, i, how) ==
    IF i > Len(joins) THEN df
    ELSE LET scanned == scan_parquet(fs.files[joins[i].table], FALSE, how)
             other_df == IF scanned.status = "ok" THEN scanned
                         ELSE Failed("ComputeError")
         IN  apply_joins(fs, inner_join(df, other_df, joins[i].on), joins, i + 1, how)

\* Python's order of the strings the model's rows hold.
StrRank(v) ==
    CASE v = "AAPL" -> 1 [] v = "GOOGL" -> 2 [] v = "MSFT" -> 3 [] v = "Tech" -> 4

\* nulls come first
SortKey(r, c) ==
    IF c \notin DOMAIN r THEN -1
    ELSE IF c \in {"ticker", "sector"} THEN StrRank(r[c]) ELSE r[c]

\* Row a comes before row b in the order of the sort columns.
RowLess(a, b, cols) ==
    \E i \in 1..Len(cols) :
        /\ SortKey(a, cols[i]) < SortKey(b, cols[i])
        /\ \A j \in 1..(i - 1) : SortKey(a, cols[j]) = SortKey(b, cols[j])

RECURSIVE SortRows(_, _)
\* The rows in ascending order of the sort columns (by insertion).
SortRows(sq, cols) ==
    IF sq = <<>> THEN <<>>
    ELSE LET rest == SortRows(Tail(sq), cols)
             r == Head(sq)
             before(x) == RowLess(x, r, cols)
             after(x) == ~RowLess(x, r, cols)
         IN  SelectSeq(rest, before) \o <<r>> \o SelectSeq(rest, after)

\* database.py:212-213
apply_sort(df, table_query) ==
    LET cols == table_query._sort_columns IN
    IF df.status # "ok" \/ cols = <<>> THEN df
    ELSE IF ~({cols[i] : i \in 1..Len(cols)} \subseteq df.columns)
    THEN Failed("ColumnNotFound")
    ELSE [df EXCEPT !.order = SortRows(df.order, cols)]

\* database.py:215-216
apply_select(df, table_query) ==
    LET sel == table_query._selected_columns
        selected == {sel.cols[i] : i \in 1..Len(sel.cols)}
        p(r) == Restrict(r, selected \cap DOMAIN r)
    IN  IF df.status # "ok" \/ sel.is_none THEN df
        ELSE IF ~(selected \subseteq df.columns) THEN Failed("ColumnNotFound")
        ELSE [status |-> "ok", rows |-> MapBag(p, df.rows), columns |-> selected,
              order |-> [i \in 1..Len(df.order) |-> p(df.order[i])]]

\* The scanned frame as the steps of database.py:199-218 take it; a scan
\* that fails lazily fails in collect().
Scanned(df) ==
    IF df.status # "ok" THEN Failed("ComputeError")
    ELSE [status |-> "ok", rows |-> df.rows, columns |-> df.columns,
          order |-> BagToSeq(df.rows)]

\* database.py:199-218 with the projection taken before the sort.
Collect_select_first(fs, df, table_query, how) ==
    apply_sort(
        apply_select(
            apply_joins(fs, apply_filters(Scanned(df), table_query),
                        table_query._joins, 1, how),
            table_query),
        table_query)

\* database.py:199-218 on a scanned frame: the filters, the joins, the
\* sort, the projection, then collect().
Collect(fs, df, table_query, how) ==
    apply_select(
        apply_sort(
            apply_joins(fs, apply_filters(Scanned(df), table_query),
                        table_query._joins, 1, how),
            table_query),
        table_query)

\* Database.query
query(fs, table_query, how) ==
    LET t == table_query.table_name IN
    IF ~table_exists(fs, t)
    THEN Failed("DoesNotExist")
    ELSE LET partition_keys == get_table_metadata(fs, t).partition_keys
             df == scan_parquet(fs.files[t], partition_keys # <<>>, how)
             parquet_files == RootFiles(fs, t)
         IN  IF df.status = "raise_scan"
             THEN IF parquet_files = {}
                  THEN \* pl.DataFrame(schema=schema), returned as it is
                       [status |-> "ok", rows |-> EmptyBag,
                        columns |-> DOMAIN get_schema(fs, t), order |-> <<>>,
                        schema |-> get_schema(fs, t)]
                  ELSE LET again == scan_parquet(parquet_files, FALSE, how)
                       IN  IF again.status = "raise_scan"
                           THEN Failed("ComputeError")
                           ELSE Collect(fs, again, table_query, how)
             ELSE Collect(fs, df, table_query, how)

\* TableQuery(table_name): no projection, no filter, no join, no sort
TableQuery(t) ==
    [table_name |-> t,
     _selected_columns |-> [is_none |-> TRUE, cols |-> <<>>],
     _filters |-> <<>>,
     _joins |-> <<>>,
     _sort_columns |-> <<>>]

\* TableQuery.select, .filter, .join and .sort: each changes the receiver
\* and returns it; the value here is the receiver after the call.
select(q, columns) == [q EXCEPT !._selected_columns = [is_none |-> FALSE, cols |-> columns]]

filter(q, condition) == [q EXCEPT !._filters = Append(@, condition)]

join(q, other, on, join_how) ==
    [q EXCEPT !._joins = Append(@, [table |-> other.table_name, on |-> on, how |-> join_how])]

sort(q, columns) == [q EXCEPT !._sort_columns = columns]

\* One builder call applied to a query.
Call(q, c) ==
    CASE c.m = "select" -> select(q, c.cols)
      [] c.m = "filter" -> filter(q, c.condition)
      [] c.m = "join"   -> join(q, TableQuery(c.other), c.on, "inner")
      [] c.m = "sort"   -> sort(q, c.cols)

RECURSIVE Build(_, _)
\* table(t) followed by the builder calls of a sequence, in order.
Build(t, calls) ==
    IF calls = <<>> THEN TableQuery(t)
    ELSE Call(Build(t, SubSeq(calls, 1, Len(calls) - 1)), calls[Len(calls)])

---------------------------------------------------------------------------
(* Database: DDL and DML                                                   *)

\* database.py:74-89: the persisted name of one partition key. A key is a
\* column name (kind "str") or a polars expression (kind "expr") with the
\* column the expression's text names ("" when it names none), whether
\* the text holds ".dt.year()", and the text itself.
PartitionKeyName(key) ==
    IF key.kind = "expr"
    THEN IF key.dt_year
         THEN IF key.col # "" THEN Concat(key.col, "_year") ELSE "year"
         ELSE key.text
    ELSE key.col

\* _execute_drop removing the database root instead of the table directory.
_execute_drop_root(fs, operation) ==
    IF ~table_exists(fs, operation.table_name)
    THEN [fs |-> fs, status |-> "DoesNotExist", col |-> ""]
    ELSE [fs |-> [fs EXCEPT !.meta  = [x \in {} |-> x],
                            !.dirs  = {},
                            !.files = [u \in DOMAIN @ |-> {}]],
          status |-> "ok", col |-> ""]

\* _execute_drop without its existence check.
_execute_drop_unchecked(fs, operation) ==
    [fs |-> delete_table_metadata(
                IF operation.table_name \in fs.dirs
                THEN rmtree(fs, operation.table_name) ELSE fs,
                operation.table_name),
     status |-> "ok", col |-> ""]

\* Database._execute_drop
_execute_drop(fs, operation) ==
    IF ~table_exists(fs, operation.table_name)
    THEN [fs |-> fs, status |-> "DoesNotExist", col |-> ""]
    ELSE LET removed == IF operation.table_name \in fs.dirs
                        THEN rmtree(fs, operation.table_name) ELSE fs
         IN  [fs |-> delete_table_metadata(removed, operation.table_name),
              status |-> "ok", col |-> ""]

\* Python's dict equality of two schemas (column -> data type)
SchemaEq(a, b) ==
    /\ DOMAIN a = DOMAIN b
    /\ \A c \in DOMAIN a : DTypeEq(a[c], b[c])

SchemaDict(schema) ==
    [c \in {schema[i][1] : i \in 1..Len(schema)} |->
        schema[CHOOSE i \in 1..Len(schema) : schema[i][1] = c][2]]

\* database.py:74-96: the table does not exist, or the mode let it through.
CreateFresh(fs, operation, now) ==
    LET keys == operation.partition_keys
        partition_key_names == [i \in 1..Len(keys) |-> PartitionKeyName(keys[i])]
    IN  [fs |-> mkdir(create_table_metadata(fs, operation.table_name,
                                            operation.schema, partition_key_names, now),
                      operation.table_name),
         status |-> "ok", col |-> ""]

\* _execute_create without its mode dispatch: the table is always created.
_execute_create_unchecked(fs, operation, now) == CreateFresh(fs, operation, now)

\* Database._execute_create
_execute_create(fs, operation, now) ==
    IF table_exists(fs, operation.table_name)
    THEN IF operation.mode = "error"
         THEN [fs |-> fs, status |-> "AlreadyExists", col |-> ""]
         ELSE IF operation.mode = "replace"
         THEN CreateFresh(_execute_drop(fs, [table_name |-> operation.table_name]).fs,
                          operation, now)
         ELSE IF operation.mode = "append"
         THEN IF ~SchemaEq(get_schema(fs, operation.table_name),
                           SchemaDict(operation.schema))
              THEN [fs |-> fs, status |-> "SchemaMismatch", col |-> ""]
              ELSE [fs |-> fs, status |-> "ok", col |-> ""]
         ELSE CreateFresh(fs, operation, now)
    ELSE CreateFresh(fs, operation, now)

\* Database._execute_delete
_execute_delete(fs, operation, how, now) ==
    LET t == operation.table_name IN
    IF ~table_exists(fs, t)
    THEN [fs |-> fs, status |-> "DoesNotExist", col |-> ""]
    ELSE LET df == query(fs, TableQuery(t), how) IN
         IF df.status # "ok"
         THEN [fs |-> fs, status |-> df.status, col |-> ""]
         ELSE IF ~(CondColumns(operation.condition) \subseteq df.columns)
         THEN [fs |-> fs, status |-> "ColumnNotFound", col |-> ""]
         ELSE LET keep(r) == ~(/\ CondColumns(operation.condition) \subseteq DOMAIN r
                               /\ Eval(operation.condition, r))
                  filtered_df == [columns |-> df.columns, rows |-> FilterBag(keep, df.rows)]
                  removed == IF t \in fs.dirs THEN rmtree(fs, t) ELSE fs
                  made == mkdir(removed, t)
                  written == IF BagCardinality(filtered_df.rows) > 0
                             THEN write_parquet(made, t, <<>>, <<"data", 0>>, filtered_df)
                             ELSE made
              IN  [fs |-> update_last_modified(written, t, now),
                   status |-> "ok", col |-> ""]

\* The <key>=<value> directories of a row, one per partition key.
PartitionDir(r, partition_keys) ==
    [i \in 1..Len(partition_keys) |-> <<partition_keys[i], r[partition_keys[i]]>>]

\* pyarrow's write_to_dataset(table, root_path, partition_cols): one new
\* file per distinct partition tuple, under a name not used before, without
\* the partition columns.
write_to_dataset(fs, t, df, partition_keys) ==
    LET keyset == {partition_keys[i] : i \in 1..Len(partition_keys)}
        groups == {PartitionDir(r, partition_keys) : r \in DOMAIN df.rows}
        strip(r) == Restrict(r, DOMAIN r \ keyset)
        part(g) == LET in_g(r) == PartitionDir(r, partition_keys) = g
                   IN  MapBag(strip, FilterBag(in_g, df.rows))
        new == {[dir |-> g, name |-> <<"guid", fs.guid>>,
                 columns |-> df.columns \ keyset, rows |-> part(g)] : g \in groups}
    IN  [fs EXCEPT !.files = [@ EXCEPT ![t] = @ \cup new],
                   !.guid  = @ + 1]

\* database.py:146-153: the derived year columns added before the write.
WithPartitions(data, partition_keys) ==
    LET derived == {k \in {partition_keys[i] : i \in 1..Len(partition_keys)} :
                       /\ IsSubstring(Chars("_year"), Chars(k))
                       /\ k \notin FrameColumns(data)
                       /\ FromChars(Remove(Chars(k), Chars("_year"))) \in FrameColumns(data)}
        base(k) == FromChars(Remove(Chars(k), Chars("_year")))
        extend(r) == [c \in DOMAIN r \cup derived |->
                         IF c \in DOMAIN r THEN r[c] ELSE Year(r[base(c)])]
    IN  [columns |-> FrameColumns(data) \cup derived, rows |-> MapBag(extend, data.rows)]

\* The next file number taken to be 1 whatever files there are.
NextFileNum_first(fs, t) == 1

\* database.py:161-162: the number in the name of the next file of an
\* unpartitioned table, one more than the parquet files at the table root.
NextFileNum(fs, t) ==
    LET parquet_files == RootFiles(fs, t)
    IN  Cardinality(parquet_files) + 1

\* Database.insert
insert(fs, t, data, now) ==
    IF ~table_exists(fs, t)
    THEN [fs |-> fs, status |-> "DoesNotExist", col |-> ""]
    ELSE LET v == validate_schema(fs, t, data) IN
         IF v.status # "ok"
         THEN [fs |-> fs, status |-> v.status, col |-> v.col]
         ELSE LET partition_keys == get_table_metadata(fs, t).partition_keys IN
              IF partition_keys # <<>>
              THEN LET data_with_partitions == WithPartitions(data, partition_keys)
                       keyset == {partition_keys[i] : i \in 1..Len(partition_keys)}
                   IN  IF ~(keyset \subseteq data_with_partitions.columns)
                       THEN [fs |-> fs, status |-> "PartitionColumnMissing", col |-> ""]
                       ELSE [fs |-> update_last_modified(
                                       write_to_dataset(fs, t, data_with_partitions,
                                                        partition_keys), t, now),
                             status |-> "ok", col |-> ""]
              ELSE LET next_file_num == NextFileNum(fs, t)
                   IN  [fs |-> update_last_modified(
                                  write_parquet(fs, t, <<>>, <<"data_", next_file_num>>,
                                                [columns |-> FrameColumns(data),
                                                 rows |-> data.rows]), t, now),
                        status |-> "ok", col |-> ""]

\* Database.optimize
optimize(fs, t, how, now) ==
    IF ~table_exists(fs, t)
    THEN [fs |-> fs, status |-> "DoesNotExist", col |-> ""]
    ELSE LET read == query(fs, TableQuery(t), how) IN
         IF read.status # "ok"
         THEN [fs |-> fs, status |-> read.status, col |-> ""]
         ELSE LET df == [columns |-> read.columns, rows |-> Unique(read.rows)]
                  removed == IF t \in fs.dirs THEN rmtree(fs, t) ELSE fs
                  made == mkdir(removed, t)
              IN  \* metadata = self.metadata.get_table_metadata(table) is None
                  \* when the record is gone: metadata.get raises.
                  IF ~table_exists(made, t)
                  THEN [fs |-> made, status |-> "AttributeError", col |-> ""]
                  ELSE LET partition_keys == get_table_metadata(made, t).partition_keys
                           keyset == {partition_keys[i] : i \in 1..Len(partition_keys)}
                       IN  IF partition_keys # <<>>
                           THEN IF ~(keyset \subseteq df.columns)
                                THEN [fs |-> made, status |-> "PartitionColumnMissing",
                                      col |-> ""]
                                ELSE [fs |-> update_last_modified(
                                                write_to_dataset(made, t, df, partition_keys),
                                                t, now),
                                      status |-> "ok", col |-> ""]
                           ELSE [fs |-> update_last_modified(
                                           write_parquet(made, t, <<>>, <<"data", 0>>, df),
                                           t, now),
                                 status |-> "ok", col |-> ""]

\* Database.command
command(fs, operation, how, now) ==
    IF operation.kind = "create" THEN _execute_create(fs, operation, now)
    ELSE IF operation.kind = "drop" THEN _execute_drop(fs, operation)
    ELSE IF operation.kind = "delete" THEN _execute_delete(fs, operation, how, now)
    ELSE [fs |-> fs, status |-> "UnknownOperation", col |-> ""]

---------------------------------------------------------------------------
(* The calls explored                                                      *)

Modes == {"error", "replace", "append", "ignore"}

StockSchema == << <<"date", "Date">>, <<"ticker", "String">> >>
Int32Schema == << <<"date", "Date">>, <<"ticker", "Int32">> >>
UInt32Schema == << <<"date", "Date">>, <<"ticker", "UInt32">> >>
\* a nested type: pl.List(pl.Int64)
ListSchema == << <<"date", "Date">>, <<"ticker", "List(Int64)">> >>

\* "ticker", and pl.col("date").dt.year()
KeyTicker == [kind |-> "str", col |-> "ticker", dt_year |-> FALSE, text |-> ""]
KeyYearOfDate == [kind |-> "expr", col |-> "date", dt_year |-> TRUE, text |-> ""]

TableDefs ==
    {[schema |-> StockSchema,  partition_keys |-> <<>>],
     [schema |-> StockSchema,  partition_keys |-> <<KeyYearOfDate, KeyTicker>>],
     [schema |-> Int32Schema,  partition_keys |-> <<>>],
     [schema |-> UInt32Schema, partition_keys |-> <<>>],
     [schema |-> ListSchema,   partition_keys |-> <<>>]}

AAPL2024 == [date |-> 20240101, ticker |-> "AAPL"]
GOOGL2025 == [date |-> 20250101, ticker |-> "GOOGL"]

Frame(date_type, ticker_type, rows) ==
    [dtypes |-> << <<"date", date_type>>, <<"ticker", ticker_type>> >>, rows |-> rows]

Frames ==
    {Frame("Date", "String", SetToBag({AAPL2024})),
     Frame("Date", "String", SetToBag({AAPL2024, GOOGL2025})),
     Frame("Date", "String", SetToBag({AAPL2024}) (+) SetToBag({AAPL2024})),
     Frame("Date", "Int32", SetToBag({AAPL2024})),
     Frame("Date", "UInt32", SetToBag({AAPL2024})),
     Frame(DatetimeUs, "String", SetToBag({AAPL2024})),
     \* no ticker column
     [dtypes |-> << <<"date", "Date">> >>, rows |-> SetToBag({[date |-> 20240101]})],
     \* no ticker column, and the date column holds strings
     [dtypes |-> << <<"date", "String">> >>, rows |-> SetToBag({[date |-> 20240101]})]}

LitTrue == [kind |-> "lit", col |-> "", val |-> ""]
TickerIsAAPL == [kind |-> "eq", col |-> "ticker", val |-> "AAPL"]
\* a condition no row of the model satisfies
TickerIsMSFT == [kind |-> "eq", col |-> "ticker", val |-> "MSFT"]
Conditions == {LitTrue, TickerIsAAPL, TickerIsMSFT}

Queries(t) ==
    {TableQuery(t),
     filter(TableQuery(t), TickerIsAAPL),
     select(TableQuery(t), <<"ticker">>)}

Libs == {"union", "raise_scan", "raise_collect"}

\* The calls explored on the database of two tables.
CompanySchema == << <<"ticker", "String">>, <<"sector", "String">> >>

LakeDefs ==
    {[schema |-> StockSchema,   partition_keys |-> <<>>],
     [schema |-> CompanySchema, partition_keys |-> <<>>]}

MSFT2023 == [date |-> 20230601, ticker |-> "MSFT"]

LakeFrames ==
    {Frame("Date", "String", SetToBag({AAPL2024, GOOGL2025, MSFT2023})),
     [dtypes |-> << <<"ticker", "String">>, <<"sector", "String">> >>,
      rows |-> SetToBag({[ticker |-> "AAPL", sector |-> "Tech"]})]}

---------------------------------------------------------------------------
(* Bookkeeping for the properties: the rows inserted into a table since it *)
(* was created, while nothing but inserts and queries touched it.          *)

NoHistory == [fresh |-> FALSE, rows |-> EmptyBag]

\* data has every schema column with the declared type.
SchemaValid(fs, t, data) ==
    LET s == fs.meta[t].schema
    IN  \A i \in 1..Len(s) :
           /\ s[i][1] \in FrameColumns(data)
           /\ DTypeEq(FrameDType(data, s[i][1]), s[i][2])

AfterCreate(operation, r) ==
    IF r.status # "ok" THEN inserted
    ELSE IF table_exists(FS, operation.table_name) /\ operation.mode \notin {"error", "replace"}
    THEN IF r.fs = FS THEN inserted
         ELSE [inserted EXCEPT ![operation.table_name] = NoHistory]
    ELSE [inserted EXCEPT ![operation.table_name] = [fresh |-> TRUE, rows |-> EmptyBag]]

AfterInsert(t, data, r) ==
    IF r.status # "ok" \/ ~inserted[t].fresh THEN inserted
    ELSE IF SchemaValid(FS, t, data)
    THEN [inserted EXCEPT ![t].rows = @ (+) data.rows]
    ELSE [inserted EXCEPT ![t] = NoHistory]

AfterRewrite(t, r) ==
    IF r.fs = FS THEN inserted ELSE [inserted EXCEPT ![t] = NoHistory]

---------------------------------------------------------------------------
(* Specification                                                           *)

\* The callers that may call insert at the same time, and a caller that
\* has not called.
Callers == {"a", "b", "c"}

NotCalling == [at |-> "idle", table |-> "", data |-> <<>>, next_file_num |-> 0,
               status |-> "", during |-> {}]

\* No call is in progress.
Idle == [at |-> "idle", op |-> "", table |-> "", inside |-> <<>>, record |-> <<>>]

\* A new database under an empty root; tables names the directories the
\* model keeps track of.
Connect(tables) ==
    /\ meta = [t \in {} |-> t]
    /\ dirs = {}
    /\ files = [t \in tables |-> {}]
    /\ guid = 1
    /\ lib \in Libs
    /\ clock = 0
    /\ result = [op |-> "connect", table |-> "", status |-> "ok", col |-> "",
                 arg |-> "", rows |-> EmptyBag, columns |-> {}]
    /\ pre = [meta |-> [t \in {} |-> t], dirs |-> {}, files |-> [t \in tables |-> {}],
              guid |-> 1]
    /\ inserted = [t \in tables |-> NoHistory]
    /\ pc = Idle
    /\ torn = {}
    /\ objects = <<>>
    /\ threads = [c \in Callers |-> NotCalling]

Init == Connect(Tables)

\* One call returns: the file system it leaves, what it reported, and the
\* TableQuery objects as it leaves them.
ReturnWith(op, t, arg, r, rows, columns, history, heap) ==
    /\ pc.at = "idle"
    /\ UNCHANGED <<pc, torn, threads>>
    /\ objects' = heap
    /\ meta' = r.fs.meta
    /\ dirs' = r.fs.dirs
    /\ files' = r.fs.files
    /\ guid' = r.fs.guid
    /\ lib' = lib
    /\ clock' = clock + 1
    /\ pre' = FS
    /\ result' = [op |-> op, table |-> t, status |-> r.status, col |-> r.col,
                  arg |-> arg, rows |-> rows, columns |-> columns]
    /\ inserted' = history

\* A call that is handed no TableQuery object returns.
Return(op, t, arg, r, rows, columns, history) ==
    ReturnWith(op, t, arg, r, rows, columns, history, objects)

\* db.command(table(t).create(schema, partition_keys, mode))
Create(defs, modes, calls) ==
    /\ clock < calls
    /\ \E t \in DOMAIN files, d \in defs, mode \in modes :
          LET operation == [kind |-> "create", table_name |-> t, schema |-> d.schema,
                            partition_keys |-> d.partition_keys, mode |-> mode]
              r == command(FS, operation, lib, clock + 1)
          IN  Return("create", t, operation, r, EmptyBag, {}, AfterCreate(operation, r))

\* db.command(table(t).drop())
Drop(calls) ==
    /\ clock < calls
    /\ \E t \in DOMAIN files :
          LET operation == [kind |-> "drop", table_name |-> t]
              r == command(FS, operation, lib, clock + 1)
          IN  Return("drop", t, operation, r, EmptyBag, {}, AfterRewrite(t, r))

\* db.command(table(t).delete(condition))
Delete(conditions, calls) ==
    /\ clock < calls
    /\ \E t \in DOMAIN files, c \in conditions :
          LET operation == [kind |-> "delete", table_name |-> t, condition |-> c]
              r == command(FS, operation, lib, clock + 1)
          IN  Return("delete", t, operation, r, EmptyBag, {}, AfterRewrite(t, r))

\* db.insert(t, data)
Insert(frames, calls) ==
    /\ clock < calls
    /\ \E t \in DOMAIN files, data \in frames :
          LET r == insert(FS, t, data, clock + 1)
          IN  Return("insert", t, data, r, EmptyBag, {}, AfterInsert(t, data, r))

\* db.query(q), q one of the queries on a table
Query(queries, calls) ==
    /\ clock < calls
    /\ \E t \in DOMAIN files : \E shape \in queries :
          LET q == [shape EXCEPT !.table_name = t]
              out == query(FS, q, lib)
          IN  Return("query", t, q, [fs |-> FS, status |-> out.status, col |-> ""],
                     out.rows, out.columns, inserted)

\* db.optimize(t)
Optimize(calls) ==
    /\ clock < calls
    /\ \E t \in DOMAIN files :
          LET r == optimize(FS, t, lib, clock + 1)
          IN  Return("optimize", t, "", r, EmptyBag, {}, AfterRewrite(t, r))

Next ==
    \/ Create(TableDefs, Modes, MaxOps)
    \/ Drop(MaxOps)
    \/ Delete(Conditions, MaxOps)
    \/ Insert(Frames, MaxOps)
    \/ Query(Queries("stock_prices"), MaxOps)
    \/ Optimize(MaxOps)

Spec == Init /\ [][Next]_vars

SectorIsTech == [kind |-> "eq", col |-> "sector", val |-> "Tech"]

CallSelect(cols) == [m |-> "select", cols |-> cols, condition |-> LitTrue, other |-> "", on |-> ""]
CallFilter(c) == [m |-> "filter", cols |-> <<>>, condition |-> c, other |-> "", on |-> ""]
CallJoin(other, on) == [m |-> "join", cols |-> <<>>, condition |-> LitTrue, other |-> other, on |-> on]
CallSort(cols) == [m |-> "sort", cols |-> cols, condition |-> LitTrue, other |-> "", on |-> ""]

\* The builder call sequences the queries of the two-table database are
\* made with.
CallSeqs ==
    {<<>>,
     <<CallSort(<<"date">>), CallSelect(<<"ticker">>)>>,
     <<CallSelect(<<"ticker">>), CallSort(<<"date">>)>>,
     <<CallFilter(TickerIsAAPL), CallJoin("companies", "ticker")>>,
     <<CallJoin("companies", "ticker"), CallFilter(TickerIsAAPL)>>,
     <<CallJoin("companies", "ticker"), CallFilter(SectorIsTech)>>,
     <<CallSelect(<<"ticker", "sector">>), CallJoin("companies", "ticker"),
       CallSort(<<"date">>)>>}

LakeQueries == {Build("stock_prices", calls) : calls \in CallSeqs}

\* The same calls on a database of two tables.
InitLake == Connect(LakeTables)

NextLake ==
    \/ Create(LakeDefs, {"error"}, MaxLakeOps)
    \/ Drop(MaxLakeOps)
    \/ Delete({TickerIsAAPL}, MaxLakeOps)
    \/ Insert(LakeFrames, MaxLakeOps)
    \/ Query(LakeQueries, MaxLakeOps)
    \/ Optimize(MaxLakeOps)

SpecLake == InitLake /\ [][NextLake]_vars

---------------------------------------------------------------------------
(* TableQuery objects: a query is an object the builder calls work on and   *)
(* Database.query is handed; the program keeps references to it.           *)

\* Number of calls explored when queries are built call by call.
MaxBuilderOps == 4

BuilderDefs == {[schema |-> StockSchema, partition_keys |-> <<>>]}

BuilderFrames == {Frame("Date", "String", SetToBag({AAPL2024, GOOGL2025, MSFT2023}))}

BuilderCalls ==
    {CallSelect(<<"ticker">>), CallFilter(TickerIsAAPL),
     CallJoin("stock_prices", "ticker"), CallSort(<<"date">>)}

\* Database.query that takes each filter off the query as it applies it.
query_object_consumed(fs, heap, ref, how) ==
    [fs |-> fs, heap |-> [heap EXCEPT ![ref]._filters = <<>>],
     out |-> query(fs, heap[ref], how)]

\* Database.query handed the object at ref: the frame it returns, the file
\* system and the objects as it leaves them. It reads metadata.json, scans
\* the data files and iterates over the clause lists of the object; it
\* writes no file and assigns to no field.
query_object(fs, heap, ref, how) ==
    [fs |-> fs, heap |-> heap, out |-> query(fs, heap[ref], how)]

\* What a call on a query object was handed and what it gave back.
Handed(ref, c, returned) == [ref |-> ref, call |-> c, heap |-> objects, returned |-> returned]

\* table(t).select(...), .filter(...), .join(...), .sort(...): TableBuilder
\* makes a new TableQuery, calls the method on it and returns it.
TableBuilderCall ==
    /\ clock < MaxBuilderOps
    /\ \E t \in DOMAIN files, c \in BuilderCalls :
          ReturnWith("build", t, Handed(0, c, Len(objects) + 1),
                     [fs |-> FS, status |-> "ok", col |-> ""], EmptyBag, {}, inserted,
                     Append(objects, Call(TableQuery(t), c)))

\* q.select(...), q.filter(...), q.join(...), q.sort(...) on a TableQuery
\* the program holds: the method assigns to a field of q and returns q.
TableQueryCall ==
    /\ clock < MaxBuilderOps
    /\ \E ref \in DOMAIN objects, c \in BuilderCalls :
          ReturnWith("call", objects[ref].table_name, Handed(ref, c, ref),
                     [fs |-> FS, status |-> "ok", col |-> ""], EmptyBag, {}, inserted,
                     [objects EXCEPT ![ref] = Call(@, c)])

\* db.query(q) on a TableQuery the program holds
Execute ==
    /\ clock < MaxBuilderOps
    /\ \E ref \in DOMAIN objects :
          LET r == query_object(FS, objects, ref, lib)
          IN  ReturnWith("execute", objects[ref].table_name, Handed(ref, <<>>, ref),
                         [fs |-> r.fs, status |-> r.out.status, col |-> ""],
                         r.out.rows, r.out.columns, inserted, r.heap)

NextBuilder ==
    \/ Create(BuilderDefs, {"error"}, MaxBuilderOps)
    \/ Insert(BuilderFrames, MaxBuilderOps)
    \/ TableBuilderCall
    \/ TableQueryCall
    \/ Execute

SpecBuilder == Init /\ [][NextBuilder]_vars

---------------------------------------------------------------------------
(* Callers that share the database directory and call insert without       *)
(* waiting for each other: each call runs line by line, and the lines of    *)
(* different callers interleave. Each caller makes one call.               *)

\* Number of calls explored when callers run at the same time.
MaxRaceOps == 3

RaceDefs == {[schema |-> StockSchema, partition_keys |-> <<>>]}

RaceFrames ==
    {Frame("Date", "String", SetToBag({AAPL2024})),
     Frame("Date", "String", SetToBag({GOOGL2025}))}

\* The callers whose insert is between its first and its last line.
Inserting == {d \in Callers : threads[d].at \in {"write", "touch"}}

\* An insert returns to its caller.
InsertReturn(c, t, data, status) ==
    result' = [op |-> "insert", table |-> t, status |-> status, col |-> "",
               arg |-> [caller |-> c, data |-> data], rows |-> EmptyBag, columns |-> {}]

\* database.py:135-163: the checks, the metadata read, the glob of the
\* table root and the file name made from its count. The call raises here
\* or goes on to write the file.
InsertGlob(c) ==
    /\ pc.at = "idle"
    /\ threads[c].at = "idle"
    /\ clock < MaxRaceOps
    /\ \E t \in DOMAIN files, data \in RaceFrames :
          LET v == IF ~table_exists(FS, t) THEN [status |-> "DoesNotExist", col |-> ""]
                   ELSE validate_schema(FS, t, data)
              call == [at |-> "write", table |-> t, data |-> data,
                       next_file_num |-> 0, status |-> "", during |-> Inserting]
          IN  IF v.status # "ok"
              THEN /\ threads' = [threads EXCEPT ![c] =
                          [call EXCEPT !.at = "returned", !.status = v.status, !.during = {}]]
                   /\ InsertReturn(c, t, data, v.status)
              ELSE /\ get_table_metadata(FS, t).partition_keys = <<>>
                   /\ threads' = [d \in Callers |->
                          IF d = c THEN [call EXCEPT !.next_file_num = NextFileNum(FS, t)]
                          ELSE IF d \in Inserting
                          THEN [threads[d] EXCEPT !.during = @ \cup {c}]
                          ELSE threads[d]]
                   /\ UNCHANGED result
    /\ clock' = clock + 1
    /\ pre' = FS
    /\ UNCHANGED <<meta, dirs, files, guid, lib, inserted, pc, torn, objects>>

\* database.py:165: data.write_parquet(table_path / file_name)
InsertWrite(c) ==
    /\ threads[c].at = "write"
    /\ LET call == threads[c]
           written == write_parquet(FS, call.table, <<>>, <<"data_", call.next_file_num>>,
                                    [columns |-> FrameColumns(call.data),
                                     rows |-> call.data.rows])
       IN  files' = written.files
    /\ threads' = [threads EXCEPT ![c].at = "touch"]
    /\ UNCHANGED <<meta, dirs, guid, lib, clock, result, pre, inserted, pc, torn, objects>>

\* database.py:167: update_last_modified, and the call returns.
InsertTouch(c) ==
    /\ threads[c].at = "touch"
    /\ meta' = update_last_modified(FS, threads[c].table, clock).meta
    /\ threads' = [threads EXCEPT ![c].at = "returned", ![c].status = "ok"]
    /\ InsertReturn(c, threads[c].table, threads[c].data, "ok")
    /\ UNCHANGED <<dirs, files, guid, lib, clock, pre, inserted, pc, torn, objects>>

NextRace ==
    \/ Create(RaceDefs, {"error"}, MaxRaceOps)
    \/ \E c \in Callers : InsertGlob(c)
    \/ \E c \in Callers : InsertWrite(c)
    \/ \E c \in Callers : InsertTouch(c)

SpecRace == Init /\ [][NextRace]_vars

---------------------------------------------------------------------------
(* Database.command alone, with create requests of every shape: the schema *)
(* may be empty and a partition key need not name a column.                *)

\* Number of commands explored.
MaxCommandOps == 3

\* "sector", a column no schema of these requests declares but one
KeySector == [kind |-> "str", col |-> "sector", dt_year |-> FALSE, text |-> ""]

CommandDefs ==
    {[schema |-> StockSchema,   partition_keys |-> <<>>],
     [schema |-> StockSchema,   partition_keys |-> <<KeyYearOfDate, KeyTicker>>],
     [schema |-> <<>>,          partition_keys |-> <<>>],
     [schema |-> StockSchema,   partition_keys |-> <<KeySector>>],
     [schema |-> CompanySchema, partition_keys |-> <<KeyYearOfDate>>]}

NextCommand ==
    \/ Create(CommandDefs, {"error", "replace"}, MaxCommandOps)
    \/ Drop(MaxCommandOps)
    \/ Delete({LitTrue}, MaxCommandOps)

SpecCommand == Init /\ [][NextCommand]_vars

---------------------------------------------------------------------------
(* The Database of bear_lake/__init__.py, the class the package itself      *)
(* exports. It keeps the same directory per table with a metadata.json,    *)
(* and names a data file after the partition values of its rows:           *)
(* <table>/<v1>/.../<vn>.parquet. Its operators carry the prefix old_.     *)

\* Number of calls explored on the Database of __init__.py.
MaxOldOps == 4

\* Database.create, __init__.py:14-29: no check; the directory is made if
\* it is missing and metadata.json is written over the one there.
old_create(fs, name, schema, partition_keys) ==
    LET metadata == [name |-> name,
                     schema |-> [c \in {schema[i][1] : i \in 1..Len(schema)} |->
                                    schema[CHOOSE i \in 1..Len(schema) : schema[i][1] = c][2]],
                     partition_keys |-> partition_keys]
        made == mkdir(fs, name)
    IN  [fs |-> [made EXCEPT !.meta = (name :> metadata) @@ made.meta],
         status |-> "ok", col |-> ""]

\* The partition values of a row, in the order of the keys.
PartitionValues(r, p_keys) == [i \in 1..Len(p_keys) |-> r[p_keys[i]]]

RECURSIVE WriteGroups(_, _, _, _, _)
\* __init__.py:39-49: one write_parquet per group of data.group_by(p_keys),
\* to the path made of its partition values; the last value names the file.
WriteGroups(fs, name, data, p_keys, groups) ==
    IF groups = {} THEN fs
    ELSE LET p_values == CHOOSE g \in groups : TRUE
             in_group(r) == PartitionValues(r, p_keys) = p_values
             group == [columns |-> FrameColumns(data),
                       rows |-> FilterBag(in_group, data.rows)]
             written == write_parquet(fs, name,
                                      SubSeq(p_values, 1, Len(p_values) - 1),
                                      p_values[Len(p_values)], group)
         IN  WriteGroups(written, name, data, p_keys, groups \ {p_values})

\* Database.insert, __init__.py:31-49. The metadata is read without a
\* check that it is there; the frame is not compared with the schema.
old_insert(fs, name, data) ==
    IF name \notin DOMAIN fs.meta
    THEN [fs |-> fs, status |-> "FileNotFoundError", col |-> ""]
    ELSE LET p_keys == fs.meta[name].partition_keys
             groups == {PartitionValues(r, p_keys) : r \in DOMAIN data.rows}
         IN  IF ~({p_keys[i] : i \in 1..Len(p_keys)} \subseteq FrameColumns(data))
             THEN [fs |-> fs, status |-> "ColumnNotFound", col |-> ""]
             ELSE [fs |-> WriteGroups(fs, name, data, p_keys, groups),
                   status |-> "ok", col |-> ""]

\* Database.delete, __init__.py:54-70: every file is read, filtered and
\* written back, or unlinked when no row is left. The files of the model
\* all have the columns of the condition.
old_delete(fs, name, expression) ==
    LET keep(r) == ~Eval(expression, r)
        kept(f) == [f EXCEPT !.rows = FilterBag(keep, f.rows)]
    IN  [fs |-> [fs EXCEPT !.files =
                    [@ EXCEPT ![name] =
                        {kept(f) : f \in {g \in @ : BagCardinality(kept(g).rows) > 0}}]],
         status |-> "ok", col |-> ""]

\* Database.drop, __init__.py:72-74: rmtree raises when there is no directory.
old_drop(fs, name) ==
    IF name \notin fs.dirs
    THEN [fs |-> fs, status |-> "FileNotFoundError", col |-> ""]
    ELSE [fs |-> rmtree(fs, name), status |-> "ok", col |-> ""]

\* bear_lake.table(name).collect(): the rows of every parquet file under
\* the table directory.
old_query(fs, name) == LET read(f) == f.rows IN AllRows(read, fs.files[name])

\* create(name, schema, ['ticker']) and create(name, schema, ['ticker', 'date'])
OldDefs ==
    {[schema |-> StockSchema, partition_keys |-> <<"ticker">>],
     [schema |-> StockSchema, partition_keys |-> <<"ticker", "date">>]}

AAPL2024b == [date |-> 20240102, ticker |-> "AAPL"]

OldFrames ==
    {Frame("Date", "String", SetToBag({AAPL2024})),
     Frame("Date", "String", SetToBag({AAPL2024b})),
     Frame("Date", "String", SetToBag({AAPL2024, GOOGL2025}))}

OldCreate ==
    /\ clock < MaxOldOps
    /\ \E t \in DOMAIN files, d \in OldDefs :
          Return("create", t, d, old_create(FS, t, d.schema, d.partition_keys),
                 EmptyBag, {}, inserted)

OldInsert ==
    /\ clock < MaxOldOps
    /\ \E t \in DOMAIN files, data \in OldFrames :
          Return("insert", t, data, old_insert(FS, t, data), EmptyBag, {}, inserted)

OldDelete ==
    /\ clock < MaxOldOps
    /\ \E t \in DOMAIN files, c \in {TickerIsAAPL} :
          Return("delete", t, c, old_delete(FS, t, c), EmptyBag, {}, inserted)

OldDrop ==
    /\ clock < MaxOldOps
    /\ \E t \in DOMAIN files :
          Return("drop", t, "", old_drop(FS, t), EmptyBag, {}, inserted)

NextOld ==
    \/ OldCreate
    \/ OldInsert
    \/ OldDelete
    \/ OldDrop

SpecOld == Init /\ [][NextOld]_vars

---------------------------------------------------------------------------
(* Calls in steps: the writes of metadata.json and the removal of a table's *)
(* directory tree are not atomic, and the process may die between two      *)
(* steps.                                                                  *)

CrashDefs ==
    {[schema |-> StockSchema, partition_keys |-> <<>>],
     [schema |-> StockSchema, partition_keys |-> <<KeyYearOfDate, KeyTicker>>]}

CrashFrames ==
    {Frame("Date", "String", SetToBag({AAPL2024})),
     Frame("Date", "String", SetToBag({AAPL2024, GOOGL2025}))}

\* A call starts: what it has done when it reaches the step at.
Begin(op, t, arg, at, record) ==
    /\ lib' = lib
    /\ clock' = clock + 1
    /\ pre' = FS
    /\ result' = [op |-> op, table |-> t, status |-> "running", col |-> "",
                  arg |-> arg, rows |-> EmptyBag, columns |-> {}]
    /\ inserted' = inserted
    /\ pc' = [at |-> at, op |-> op, table |-> t, inside |-> <<>>, record |-> record]
    /\ UNCHANGED <<objects, threads>>

\* open(metadata_path, "w"), metadata.py:80 and 102: the file exists and is
\* empty until json.dump has written the record.
open_w(t) ==
    /\ meta' = [x \in DOMAIN meta \ {t} |-> meta[x]]
    /\ torn' = torn \cup {t}

\* A create that gets to create_table_metadata, up to its open(): the
\* drop of mode 'replace' and the mkdir are done.
CreateOpen ==
    /\ pc.at = "idle"
    /\ clock < MaxCrashOps
    /\ \E t \in DOMAIN files, d \in CrashDefs, mode \in {"error", "replace"} :
          LET operation == [kind |-> "create", table_name |-> t, schema |-> d.schema,
                            partition_keys |-> d.partition_keys, mode |-> mode]
              r == command(FS, operation, lib, clock + 1)
          IN  /\ r.status = "ok"
              /\ dirs' = r.fs.dirs
              /\ files' = r.fs.files
              /\ guid' = r.fs.guid
              /\ open_w(t)
              /\ Begin("create", t, operation, "write", r.fs.meta[t])

\* An insert up to the open() of its update_last_modified: the data file
\* is written.
InsertOpen ==
    /\ pc.at = "idle"
    /\ clock < MaxCrashOps
    /\ \E t \in DOMAIN files, data \in CrashFrames :
          LET r == insert(FS, t, data, clock + 1)
          IN  /\ r.status = "ok"
              /\ table_exists(r.fs, t)
              /\ dirs' = r.fs.dirs
              /\ files' = r.fs.files
              /\ guid' = r.fs.guid
              /\ open_w(t)
              /\ Begin("insert", t, data, "write", r.fs.meta[t])

\* json.dump(metadata, f) and the close of the file: the call returns.
WriteClose ==
    /\ pc.at = "write"
    /\ meta' = (pc.table :> pc.record) @@ meta
    /\ torn' = torn \ {pc.table}
    /\ pc' = Idle
    /\ result' = [result EXCEPT !.status = "ok"]
    /\ UNCHANGED <<dirs, files, guid, lib, clock, pre, inserted, objects, threads>>

\* _execute_drop up to shutil.rmtree(table_path)
DropBegin ==
    /\ pc.at = "idle"
    /\ clock < MaxCrashOps
    /\ \E t \in DOMAIN files :
          /\ table_exists(FS, t)
          /\ t \in dirs
          /\ Begin("drop", t, [kind |-> "drop", table_name |-> t], "rmtree", <<>>)
    /\ UNCHANGED <<meta, dirs, files, guid, torn>>

\* The entry of the table directory a data file lies under: <<>> for a file
\* at the root, else its first <key>=<value> directory.
TopEntry(f) == IF f.dir = <<>> THEN <<>> ELSE f.dir[1]

\* shutil.rmtree unlinks one more file. It takes the entries of a directory
\* in the order os.scandir lists them, which the file system decides:
\* metadata.json, a data file at the root, or a partition directory, which
\* it empties before it goes on.
RmtreeUnlink ==
    /\ pc.at = "rmtree"
    /\ LET t == pc.table IN
       \/ /\ pc.inside = <<>>
          /\ table_exists(FS, t)
          /\ meta' = [x \in DOMAIN meta \ {t} |-> meta[x]]
          /\ UNCHANGED <<files, pc>>
       \/ /\ \E f \in files[t] :
                /\ pc.inside = <<>> \/ TopEntry(f) = pc.inside
                /\ files' = [files EXCEPT ![t] = @ \ {f}]
                /\ pc' = [pc EXCEPT !.inside =
                              IF /\ TopEntry(f) # <<>>
                                 /\ \E g \in files[t] \ {f} : TopEntry(g) = TopEntry(f)
                              THEN TopEntry(f) ELSE <<>>]
          /\ UNCHANGED meta
    /\ UNCHANGED <<dirs, guid, lib, clock, result, pre, inserted, torn, objects, threads>>

\* The tree is empty: rmtree removes the directory, delete_table_metadata
\* finds no file, the drop returns.
DropReturn ==
    /\ pc.at = "rmtree"
    /\ files[pc.table] = {}
    /\ ~table_exists(FS, pc.table)
    /\ dirs' = dirs \ {pc.table}
    /\ pc' = Idle
    /\ result' = [result EXCEPT !.status = "ok"]
    /\ UNCHANGED <<meta, files, guid, lib, clock, pre, inserted, torn, objects, threads>>

\* The process dies between two steps of a call; the files stay as they are.
Crash ==
    /\ pc.at \in {"write", "rmtree"}
    /\ pc' = [pc EXCEPT !.at = "crashed"]
    /\ UNCHANGED <<meta, dirs, files, guid, lib, clock, result, pre, inserted, torn,
                   objects, threads>>

NextCrash ==
    \/ CreateOpen
    \/ InsertOpen
    \/ WriteClose
    \/ DropBegin
    \/ RmtreeUnlink
    \/ DropReturn
    \/ Crash

SpecCrash == Init /\ [][NextCrash]_vars

---------------------------------------------------------------------------
(* Properties                                                              *)

\* What an unfiltered, unprojected query of table t returns in fs.
SelectAll(fs, t) == query(fs, TableQuery(t), lib)

\* The rows the data files of table t hold, partition columns included.
StoredRows(fs, t) ==
    LET read(f) == FileRows(f, TRUE) IN AllRows(read, fs.files[t])

\* The columns and types of a stored schema, as a dict.
Declared(fs, t) == SchemaDict(fs.meta[t].schema)

\* C1: after a successful delete of the rows matching a predicate, an
\* unfiltered, unprojected query of the table returns exactly the rows that
\* were in the table before the delete and for which the predicate was false.
C1_DeleteThenQueryReturnsKept ==
    (result.op = "delete" /\ result.status = "ok") =>
        LET before == SelectAll(pre, result.table)
            after == SelectAll(FS, result.table)
            kept(r) == ~Eval(result.arg.condition, r)
        IN  /\ after.status = "ok"
            /\ after.rows = FilterBag(kept, before.rows)

\* C2: after a delete on a registered table the table is still registered
\* with the same schema and partition keys, and when every row matched the
\* predicate the table has no data file.
C2_DeleteKeepsMetadata ==
    (result.op = "delete" /\ table_exists(pre, result.table)) =>
        LET t == result.table
            before == SelectAll(pre, t)
        IN  /\ table_exists(FS, t)
            /\ meta[t].schema = pre.meta[t].schema
            /\ meta[t].partition_keys = pre.meta[t].partition_keys
            /\ (/\ result.status = "ok"
                /\ \A r \in DOMAIN before.rows : Eval(result.arg.condition, r))
                   => files[t] = {}

\* C3: optimize on a registered table completes without error, leaves the
\* table registered, and afterwards an unfiltered query returns exactly the
\* distinct rows the table held before, stored as one file per partition
\* (one file in total when the table is not partitioned).
C3_OptimizeCompacts ==
    (result.op = "optimize" /\ table_exists(pre, result.table)) =>
        LET t == result.table
            before == SelectAll(pre, t)
            after == SelectAll(FS, t)
        IN  /\ result.status = "ok"
            /\ table_exists(FS, t)
            /\ after.status = "ok"
            /\ after.rows = Unique(before.rows)
            /\ \A f, g \in files[t] : f.dir = g.dir => f = g
            /\ meta[t].partition_keys = <<>> => Cardinality(files[t]) <= 1

C5_QueryReturnsInserted ==
    \A t \in DOMAIN files :
        inserted[t].fresh =>
            LET out == SelectAll(FS, t)
            IN  /\ out.status = "ok"
                /\ Project(out.rows, DOMAIN Declared(FS, t)) = inserted[t].rows

\* C6: an insert of data that lacks a column of the stored schema fails with
\* the missing-column error and leaves the data files and the metadata
\* record, last_modified included, as they were.
C6_MissingColumnRejected ==
    (/\ result.op = "insert"
     /\ table_exists(pre, result.table)
     /\ ~(DOMAIN Declared(pre, result.table) \subseteq FrameColumns(result.arg))) =>
        /\ result.status = "MissingColumn"
        /\ meta = pre.meta
        /\ files = pre.files

\* C7: an insert fails, before any file is written, whenever a schema column
\* is present in the data with a type different from the declared one.
C7_TypeMismatchRejected ==
    (/\ result.op = "insert"
     /\ table_exists(pre, result.table)
     /\ \E c \in DOMAIN Declared(pre, result.table) \cap FrameColumns(result.arg) :
            ~DTypeEq(FrameDType(result.arg, c), Declared(pre, result.table)[c])) =>
        /\ result.status # "ok"
        /\ files = pre.files

\* C8: create with mode 'error' on a table that exists fails with the
\* already-exists error and leaves its metadata and data files unchanged.
C8_CreateErrorModeRejects ==
    (/\ result.op = "create"
     /\ result.arg.mode = "error"
     /\ table_exists(pre, result.table)) =>
        /\ result.status = "AlreadyExists"
        /\ meta = pre.meta
        /\ files = pre.files
        /\ dirs = pre.dirs

\* A create with mode 'error' was refused on a table that holds data, with
\* a request that differs from the stored definition.
C8_Witness ==
    /\ result.op = "create"
    /\ result.arg.mode = "error"
    /\ table_exists(pre, result.table)
    /\ result.status = "AlreadyExists"
    /\ pre.files[result.table] # {}
    /\ ~SchemaEq(Declared(pre, result.table), SchemaDict(result.arg.schema))

\* C9: create with mode 'replace' always succeeds and leaves the table
\* registered with the requested schema and partition keys and with no data
\* file: an unfiltered query returns no row.
C9_ReplaceYieldsEmptyTable ==
    (result.op = "create" /\ result.arg.mode = "replace") =>
        LET t == result.table
            keys == result.arg.partition_keys
        IN  /\ result.status = "ok"
            /\ table_exists(FS, t)
            /\ SchemaEq(Declared(FS, t), SchemaDict(result.arg.schema))
            /\ meta[t].partition_keys = [i \in 1..Len(keys) |-> PartitionKeyName(keys[i])]
            /\ files[t] = {}
            /\ SelectAll(FS, t).status = "ok"
            /\ SelectAll(FS, t).rows = EmptyBag

\* C10: create with mode 'append' on a table that exists succeeds and
\* changes nothing when the requested schema equals the schema the table was
\* created with, and fails with the schema-mismatch error when it differs.
C10_AppendComparesSchemas ==
    (/\ result.op = "create"
     /\ result.arg.mode = "append"
     /\ table_exists(pre, result.table)) =>
        IF SchemaEq(Declared(pre, result.table), SchemaDict(result.arg.schema))
        THEN /\ result.status = "ok"
             /\ meta = pre.meta
             /\ files = pre.files
        ELSE result.status = "SchemaMismatch"

\* C11: after a create with schema S that registers the table, the table is
\* in list_tables() and get_schema returns S: the same columns in the same
\* order with the same types.
C11_SchemaRoundTrip ==
    (result.op = "create" /\ result.status = "ok" /\ ~table_exists(pre, result.table)) =>
        LET t == result.table
            S == result.arg.schema
        IN  /\ t \in list_tables(FS)
            /\ [i \in 1..Len(meta[t].schema) |-> meta[t].schema[i][1]]
                   = [i \in 1..Len(S) |-> S[i][1]]
            /\ SchemaEq(get_schema(FS, t), SchemaDict(S))

\* The type tags stored in the metadata records of fs.
StoredTags(fs) ==
    UNION {{fs.meta[t].schema[i][2] : i \in 1..Len(fs.meta[t].schema)} : t \in DOMAIN fs.meta}

\* The data types a decode can return.
DataTypes == TypeMap \cup DtypeMap \cup {"List(Int64)", DatetimeUs}

\* C12: decoding a stored type tag outside the recognized enumeration fails
\* with a schema-decode error, in MetadataManager._string_to_polars_type and
\* in Database._deserialize_dtype: no data type is returned and the tag is
\* not evaluated as code.
C12_UnknownTagFailsToDecode ==
    \A tag \in StoredTags(FS) :
        /\ tag \notin TypeMap => _string_to_polars_type(tag) \notin DataTypes
        /\ tag \notin DtypeMap =>
               /\ _deserialize_dtype(tag).status = "SchemaDecodeError"
               /\ ~_deserialize_dtype(tag).evaluated

\* The part of C12 about bear_lake/__init__.py alone.
C12_DeserializeNeverEvaluates ==
    \A tag \in StoredTags(FS) : ~_deserialize_dtype(tag).evaluated

\* C13: a drop of a registered table succeeds and leaves the table
\* unregistered (table_exists false, not in list_tables) with none of its
\* data files, and leaves the metadata and the data files of every other
\* table as they were.
C13_DropRemovesOnlyThatTable ==
    (result.op = "drop" /\ table_exists(pre, result.table)) =>
        LET t == result.table IN
        /\ result.status = "ok"
        /\ ~table_exists(FS, t)
        /\ t \notin list_tables(FS)
        /\ files[t] = {}
        /\ \A u \in DOMAIN files \ {t} :
              /\ table_exists(FS, u) = table_exists(pre, u)
              /\ table_exists(FS, u) => meta[u] = pre.meta[u]
              /\ files[u] = pre.files[u]
              /\ (u \in dirs) = (u \in pre.dirs)

\* A table holding data was dropped while another registered table held
\* data.
C13_Witness ==
    /\ result.op = "drop"
    /\ result.status = "ok"
    /\ pre.files[result.table] # {}
    /\ \E u \in DOMAIN files \ {result.table} :
          table_exists(pre, u) /\ pre.files[u] # {}

\* C14: at every point of a drop, the process dead or not, a table that
\* still has a data file still has its metadata record.
C14_DropRemovesMetadataLast ==
    (result.op = "drop" /\ pc.at \in {"rmtree", "crashed"}) =>
        (files[pc.table] # {} => table_exists(FS, pc.table))

\* C20: when the process dies during a call that writes metadata.json
\* (create_table_metadata, update_last_modified), the table's record is the
\* complete old record, or absent for a first create, or the complete new
\* record: the file is never left empty or partly written.
C20_MetadataWriteIsAtomic ==
    (pc.at = "crashed" /\ pc.op \in {"create", "insert"}) =>
        LET t == pc.table IN
        /\ t \notin torn
        /\ IF table_exists(FS, t)
           THEN meta[t] = pc.record \/ (table_exists(pre, t) /\ meta[t] = pre.meta[t])
           ELSE ~table_exists(pre, t)

\* The value of partition key k for row r of file f: from the row, from
\* the file's <key>=<value> directories, or derived from the base column.
KeyValue(f, r, k) ==
    LET h == HiveRow(f, r)
        base == Remove(Chars(k), Chars("_year"))
    IN  IF k \in DOMAIN h THEN h[k]
        ELSE IF \E c \in DOMAIN h : Chars(c) = base
        THEN Year(h[CHOOSE c \in DOMAIN h : Chars(c) = base])
        ELSE -1

\* C15: every data file of a registered partitioned table holds only rows
\* that agree on the value of every partition key of the table.
C15_FilesHoldOnePartition ==
    \A t \in DOMAIN meta :
        \A f \in files[t] : \A r1, r2 \in DOMAIN f.rows :
            \A i \in 1..Len(meta[t].partition_keys) :
                KeyValue(f, r1, meta[t].partition_keys[i])
                    = KeyValue(f, r2, meta[t].partition_keys[i])

\* The query of table t with the one filter c.
Filtered(t, c) == [TableQuery(t) EXCEPT !._filters = <<c>>]

\* C16: on a table partitioned by the derived year of the date and by the
\* ticker, a query with a filter on a column returns exactly the rows
\* inserted since the create that satisfy the filter, and rows of different
\* years lie in different partition directories.
C16_FilterAcrossPartitions ==
    \A t \in DOMAIN files :
        (/\ inserted[t].fresh
         /\ table_exists(FS, t)
         /\ meta[t].partition_keys = <<"date_year", "ticker">>) =>
            /\ \A c \in {TickerIsAAPL, TickerIsMSFT} :
                  LET out == query(FS, Filtered(t, c), lib)
                      sat(r) == Eval(c, r)
                  IN  /\ out.status = "ok"
                      /\ Project(out.rows, DOMAIN Declared(FS, t))
                            = FilterBag(sat, inserted[t].rows)
            /\ \A f, g \in files[t] : \A r1 \in DOMAIN f.rows, r2 \in DOMAIN g.rows :
                  KeyValue(f, r1, "date_year") # KeyValue(g, r2, "date_year")
                      => f.dir # g.dir

\* The statement of C16 for the tables all of whose files were written by
\* the partitioned inserts (no file left behind by a delete): it holds.
C16_WhenNoFileWasLeftBehind ==
    \A t \in DOMAIN files :
        (/\ inserted[t].fresh
         /\ table_exists(FS, t)
         /\ \A f \in files[t] : f.name[1] = "guid"
         /\ meta[t].partition_keys = <<"date_year", "ticker">>) =>
            /\ \A c \in {TickerIsAAPL, TickerIsMSFT} :
                  LET out == query(FS, Filtered(t, c), lib)
                      sat(r) == Eval(c, r)
                  IN  /\ out.status = "ok"
                      /\ Project(out.rows, DOMAIN Declared(FS, t))
                            = FilterBag(sat, inserted[t].rows)
            /\ \A f, g \in files[t] : \A r1 \in DOMAIN f.rows, r2 \in DOMAIN g.rows :
                  KeyValue(f, r1, "date_year") # KeyValue(g, r2, "date_year")
                      => f.dir # g.dir

IsSelect(c) == c.m = "select"
IsFilter(c) == c.m = "filter"
IsJoin(c) == c.m = "join"
IsSort(c) == c.m = "sort"

\* Two builder call sequences add the same filters in the same order, the
\* same joins in the same order, and end on the same projection and sort.
SameClauses(a, b) ==
    LET last(sq) == IF sq = <<>> THEN <<>> ELSE <<sq[Len(sq)]>>
    IN  /\ SelectSeq(a, IsFilter) = SelectSeq(b, IsFilter)
        /\ SelectSeq(a, IsJoin) = SelectSeq(b, IsJoin)
        /\ last(SelectSeq(a, IsSelect)) = last(SelectSeq(b, IsSelect))
        /\ last(SelectSeq(a, IsSort)) = last(SelectSeq(b, IsSort))

\* No row comes before a row that precedes it in the sequence.
IsSortedBy(sq, cols) ==
    \A i, j \in 1..Len(sq) : i < j => ~RowLess(sq[j], sq[i], cols)

C17_WitnessJoin ==
    /\ result.op = "query"
    /\ result.status = "ok"
    /\ Len(result.arg._filters) = 1
    /\ Len(result.arg._joins) = 1
    /\ result.rows # EmptyBag

\* The queries C18 is stated for: the one executed, and every query the
\* builder call sequences make on its table.
WithClauses(t) == {Build(t, calls) : calls \in CallSeqs} \cup Queries(t)

\* C18: a query of a registered table with zero data files returns no row
\* and the table's full declared schema, every column with its declared
\* type, whatever projection, filters, joins or sort it carries.
C18_EmptyTableFullSchema ==
    (/\ result.op = "query"
     /\ table_exists(FS, result.table)
     /\ files[result.table] = {}) =>
        \A q \in WithClauses(result.table) \cup {result.arg} :
            LET out == query(FS, q, lib)
            IN  /\ out.status = "ok"
                /\ out.rows = EmptyBag
                /\ out.columns = DOMAIN Declared(FS, result.table)
                /\ SchemaEq(out.schema, Declared(FS, result.table))

\* The statement of C18 for the column names alone: it holds.
C18_EmptyTableAllColumns ==
    (/\ result.op = "query"
     /\ table_exists(FS, result.table)
     /\ files[result.table] = {}) =>
        \A q \in WithClauses(result.table) \cup {result.arg} :
            LET out == query(FS, q, lib)
            IN  /\ out.status = "ok"
                /\ out.rows = EmptyBag
                /\ out.columns = DOMAIN Declared(FS, result.table)

\* C19: drop, delete, insert, optimize and query on a table name that is
\* not registered fail with the table-does-not-exist error and leave every
\* metadata record, directory and data file of the database as it was.
C19_UnregisteredTableRejected ==
    (/\ result.op \in {"drop", "delete", "insert", "optimize", "query"}
     /\ ~table_exists(pre, result.table)) =>
        /\ result.status = "DoesNotExist"
        /\ meta = pre.meta
        /\ dirs = pre.dirs
        /\ files = pre.files
        /\ guid = pre.guid

\* A drop was refused on an unregistered table whose directory holds a
\* data file, while another table is registered.
C19_Witness ==
    /\ result.op = "drop"
    /\ result.status = "DoesNotExist"
    /\ ~table_exists(pre, result.table)
    /\ pre.files[result.table] # {}
    /\ \E u \in DOMAIN files \ {result.table} : table_exists(pre, u)

\* C21: executing a query, whatever its filters, joins, sort and projection
\* and whether it succeeds or fails, changes no table's metadata record, no
\* table's data files, and not the TableQuery object that was executed (nor
\* any other).
C21_QueryOnlyReads ==
    result.op = "execute" =>
        /\ meta = pre.meta
        /\ dirs = pre.dirs
        /\ files = pre.files
        /\ objects = result.arg.heap

\* A query with a join was executed on a table with data and returned rows.
C21_Witness ==
    /\ result.op = "execute"
    /\ result.status = "ok"
    /\ result.rows # EmptyBag
    /\ objects[result.arg.ref]._joins # <<>>

\* A query with a filter was executed after a call had changed it.
C21_WitnessFilter ==
    /\ result.op = "execute"
    /\ result.status = "ok"
    /\ objects[result.arg.ref]._filters # <<>>
    /\ objects[result.arg.ref]._selected_columns.cols # <<>>

\* A query was executed and failed.
C21_WitnessFailed ==
    /\ result.op = "execute"
    /\ result.status # "ok"
    /\ objects[result.arg.ref]._sort_columns # <<>>

\* C25: select, filter, join or sort called on a query yields a query with
\* the added clause and leaves the projection, the filters, the joins and
\* the sort columns of the receiver as they were, so that executing a
\* reference to the receiver held from before gives what it gave before.
C25_QueryIsImmutable ==
    result.op \in {"build", "call"} =>
        LET before == result.arg.heap
            receiver == IF result.op = "build" THEN TableQuery(result.table)
                        ELSE before[result.arg.ref]
        IN  /\ objects[result.arg.returned] = Call(receiver, result.arg.call)
            /\ \A ref \in DOMAIN before :
                  /\ objects[ref] = before[ref]
                  /\ query(FS, objects[ref], lib) = query(FS, before[ref], lib)

\* C25 for the calls made on the builder: table(t).select(...) and the
\* like make a new query each time and change no query made before.
C25_BuilderMakesNewQuery ==
    result.op = "build" =>
        /\ result.arg.returned \notin DOMAIN result.arg.heap
        /\ \A ref \in DOMAIN result.arg.heap : objects[ref] = result.arg.heap[ref]

\* The callers whose insert into table t returned without an error.
Returned(t) ==
    {c \in Callers : /\ threads[c].at = "returned"
                     /\ threads[c].status = "ok"
                     /\ threads[c].table = t}

\* The file an insert wrote, as the table holds it now.
FileOf(c) ==
    {f \in files[threads[c].table] :
        f.dir = <<>> /\ f.name = <<"data_", threads[c].next_file_num>>}

\* The rows inserted by a set of callers, all together.
RowsOf(cs) == LET given(c) == threads[c].data.rows IN AllRows(given, cs)

\* C22: inserts into an unpartitioned table that run at the same time can
\* take the same next file number, and then the table holds the rows of one
\* of them only although both returned; this happens only so: the rows of a
\* returned insert are in the file it named unless a call that ran during
\* it took the same number, and when no two inserts ran at the same time
\* the table holds the rows of all of them.
C22_ConcurrentInsertsMayCollide ==
    \A t \in DOMAIN files :
        /\ \A c \in Returned(t) :
              \/ \E f \in FileOf(c) : f.rows = threads[c].data.rows
              \/ \E d \in threads[c].during :
                    /\ threads[d].table = t
                    /\ threads[d].next_file_num = threads[c].next_file_num
        /\ (Inserting = {} /\ \A c \in Returned(t) : threads[c].during = {})
              => StoredRows(FS, t) = RowsOf(Returned(t))

\* Two inserts took the same file number, both returned, and the table
\* holds the rows of one of them only.
C22_Witness ==
    \E c, d \in Returned("stock_prices") :
        /\ c # d
        /\ Inserting = {}
        /\ Returned("stock_prices") = {c, d}
        /\ threads[c].next_file_num = threads[d].next_file_num
        /\ threads[c].data # threads[d].data
        /\ StoredRows(FS, "stock_prices") = threads[d].data.rows

\* Two inserts ran one after the other and the table holds the rows of both.
C22_WitnessSerial ==
    \E c, d \in Returned("stock_prices") :
        /\ c # d
        /\ threads[c].during = {} /\ threads[d].during = {}
        /\ StoredRows(FS, "stock_prices") = threads[c].data.rows (+) threads[d].data.rows

C26_CreateNeverRedefinesOverData ==
    (result.op = "create" /\ table_exists(pre, result.table)) =>
        LET t == result.table
        IN  \/ result.status # "ok"
            \/ files[t] = {}
            \/ /\ files[t] = pre.files[t]
               /\ table_exists(FS, t)
               /\ meta[t].schema = pre.meta[t].schema
               /\ meta[t].partition_keys = pre.meta[t].partition_keys

\* C26 for the three modes the builder documents: it holds for those.
C26_ForDocumentedModes ==
    (/\ result.op = "create"
     /\ table_exists(pre, result.table)
     /\ result.arg.mode \in {"error", "replace", "append"}) =>
        LET t == result.table
        IN  \/ result.status # "ok"
            \/ files[t] = {}
            \/ /\ files[t] = pre.files[t]
               /\ meta[t] = pre.meta[t]

\* A schema and partition key names that go together: the schema has a
\* column, and every key is a column or <col>_year for a column <col>.
WellFormed(schema, partition_key_names) ==
    LET cols == {schema[i][1] : i \in 1..Len(schema)}
    IN  /\ schema # <<>>
        /\ \A i \in 1..Len(partition_key_names) :
              \/ partition_key_names[i] \in cols
              \/ \E c \in cols :
                    Chars(partition_key_names[i]) = Chars(c) \o Chars("_year")

\* C24: in every state reached through Database.command each registered
\* table has a schema with at least one column, and each stored partition
\* key is a column of the schema or <col>_year for a column <col> of it; a
\* create request that is not so is rejected.
C24_MetadataIsWellFormed ==
    /\ \A t \in DOMAIN meta : WellFormed(meta[t].schema, meta[t].partition_keys)
    /\ (result.op = "create" /\ result.status = "ok") =>
          LET keys == result.arg.partition_keys
          IN  WellFormed(result.arg.schema,
                         [i \in 1..Len(keys) |-> PartitionKeyName(keys[i])])

\* C27: an insert of the Database of __init__.py leaves every data file an
\* earlier insert wrote in place and as it was, so that afterwards the
\* table holds the rows it held and the rows inserted, also when these
\* share their partition values with rows inserted before.
C27_InsertKeepsEarlierFiles ==
    (result.op = "insert" /\ result.status = "ok") =>
        LET t == result.table
        IN  /\ pre.files[t] \subseteq files[t]
            /\ old_query(FS, t) = old_query(pre, t) (+) result.arg.rows

\* C27 for an insert whose rows have partition values no row of the table
\* has: it holds for those.
C27_WhenPartitionIsNew ==
    (/\ result.op = "insert"
     /\ result.status = "ok"
     /\ \A r \in DOMAIN result.arg.rows, x \in DOMAIN old_query(pre, result.table) :
           PartitionValues(r, pre.meta[result.table].partition_keys)
              # PartitionValues(x, pre.meta[result.table].partition_keys)) =>
        LET t == result.table
        IN  /\ pre.files[t] \subseteq files[t]
            /\ old_query(FS, t) = old_query(pre, t) (+) result.arg.rows

===========================================================================
